---------------------------- MODULE Spec2Model ----------------------------
(***************************************************************************)
(* A model of mesh_to_sdf/surface_point_cloud.py: the SurfacePointCloud    *)
(* class (get_sdf, get_sdf_in_batches, get_voxels, is_outside) and the     *)
(* module functions get_equidistant_camera_angles, create_from_scans and   *)
(* sample_from_mesh.                                                       *)
(*                                                                         *)
(* Encodings.                                                              *)
(*  - A 3D point is a triple of integers; one length unit (1.0) is Scale.  *)
(*  - A float is the record [neg, mag]: its IEEE sign bit and its          *)
(*    magnitude.  A distance d is carried as mag = d*d (the squared        *)
(*    Euclidean distance, exact in integers); sqrt and the float32 cast    *)
(*    are monotone, so order and equality of magnitudes are kept.          *)
(*    "x *= -1" flips the sign bit, also of a zero (-0.0).                 *)
(*  - A numpy array is <<dtype, shape0, data>>: its element type, its number *)
(*    of rows and its rows.                                                *)
(*  - Python's None is the empty tuple, a present value x is <<x>>.        *)
(*  - A call's outcome is [exc, val]: exc is "None" when the call          *)
(*    returned val, and the name of the exception class when it raised.    *)
(***************************************************************************)
EXTENDS Integers, Sequences, FiniteSets, TLC

VARIABLES
    pc,      \* where the program is: idle, create_from_scans, ready,
             \* get_sdf_in_batches, returned, raised
    cloud,   \* the SurfacePointCloud object, None before construction
    frame,   \* the running function's arguments and local variables
    ret,     \* outcome of the last finished call
    log      \* history: one record per executed loop iteration of the frame

vars == <<pc, cloud, frame, ret, log>>

---------------------------------------------------------------------------
(* Bounds of the model *)

MaxScans == 3      \* scan_count ranges over -1..MaxScans
MaxPoints == 3     \* query arrays hold 0..MaxPoints rows
MaxBatch == 2      \* explicit batch sizes range over 1..MaxBatch
MaxK == 2          \* explicit sample_count ranges over 1..MaxK
MaxResolution == 2 \* voxel_resolution ranges over 1..MaxResolution

---------------------------------------------------------------------------
(* Python values *)

None == <<>>
Some(x) == <<x>>
Get(o) == o[1]

NoExc == "None"
Ok(v) == [exc |-> NoExc, val |-> v]
Raise(e) == [exc |-> e, val |-> None]

RECURSIVE Factorial(_)
Factorial(n) == IF n <= 1 THEN 1 ELSE n * Factorial(n - 1)

\* One length unit.  Every grid of resolution 1..MaxResolution has integer centers.
Scale == 2 * Factorial(MaxResolution)
Half == Scale \div 2

Dot(u, v) == u[1] * v[1] + u[2] * v[2] + u[3] * v[3]
Sub(u, v) == <<u[1] - v[1], u[2] - v[2], u[3] - v[3]>>
Dist2(u, v) == Dot(Sub(u, v), Sub(u, v))

Float(m) == [neg |-> FALSE, mag |-> m]
Negate(x) == [neg |-> ~x.neg, mag |-> x.mag]
Array(dtype, shape0, data) == <<dtype, shape0, data>>
Dtype(a) == a[1]
Shape0(a) == a[2]
Data(a) == a[3]
Rows(a) == 1..Shape0(a)

\* a[start:end] with 0-based, end-exclusive integer bounds
Slice(a, start, end) ==
    Array(Dtype(a), end - start, [j \in 1..(end - start) |-> Data(a)[start + j]])

\* Fault model: the arrays are joined last first
RECURSIVE concatenate_Reversed(_)
concatenate_Reversed(arrays) ==
    IF arrays = <<>> THEN <<>> ELSE concatenate_Reversed(Tail(arrays)) \o Head(arrays)

\* np.concatenate(arrays, axis=0)
RECURSIVE concatenate(_)
concatenate(arrays) ==
    IF arrays = <<>> THEN <<>> ELSE Head(arrays) \o concatenate(Tail(arrays))

---------------------------------------------------------------------------
(* sklearn.neighbors.KDTree *)

\* KDTree(points).  rank is the order in which the tree reports points that
\* are equally far from a query: fixed by the tree, unknown to the caller.
KDTree(points, rank) ==
    IF Len(points) = 0 THEN Raise("ValueError")
    ELSE Ok([pts |-> points, rank |-> rank])

Closer(tree, q, a, b) ==
    LET da == Dist2(q, tree.pts[a])
        db == Dist2(q, tree.pts[b])
    IN  da < db \/ (da = db /\ tree.rank[a] < tree.rank[b])

RECURSIVE Nearest(_, _, _, _)
Nearest(tree, q, k, rest) ==
    IF k = 0 THEN <<>>
    ELSE LET best == CHOOSE a \in rest : \A b \in rest \ {a} : Closer(tree, q, a, b)
         IN  <<best>> \o Nearest(tree, q, k - 1, rest \ {best})

\* kd_tree.query(X, k): per row the k nearest points, nearest first:
\* their distances and their indices into the tree's data.
KDTreeQuery(tree, X, k) ==
    IF Shape0(X) = 0 \/ k > Len(tree.pts) THEN Raise("ValueError")
    ELSE LET indices == [j \in Rows(X) |->
                            Nearest(tree, Data(X)[j], k, DOMAIN tree.pts)]
             distances == [j \in Rows(X) |->
                              [r \in 1..k |->
                                  Float(Dist2(Data(X)[j], tree.pts[indices[j][r]]))]]
         IN  Ok([distances |-> distances, indices |-> indices])

---------------------------------------------------------------------------
(* mesh_to_sdf.scan.Scan and the mesh: what the renderer and the sampler return *)

\* Surface samples of the mesh: a point and the normal stored for it.  The last
\* one has an inward normal (a badly oriented face).
SurfaceSamples ==
    << [point |-> <<Half, 0, 0>>,  normal |-> <<1, 0, 0>>],
       [point |-> <<-Half, 0, 0>>, normal |-> <<-1, 0, 0>>],
       [point |-> <<0, Half, 0>>,  normal |-> <<0, 1, 0>>],
       [point |-> <<0, -Half, 0>>, normal |-> <<0, 1, 0>>] >>

\* What one render can capture: the samples it sees, and its depth buffer as
\* the half space {p : p . dir > depth} of unoccluded points.
ScanOutputs ==
    { [samples |-> <<1>>,    dir |-> <<1, 0, 0>>,  depth |-> 0],
      [samples |-> <<2, 3>>, dir |-> <<-1, 0, 0>>, depth |-> 0],
      [samples |-> <<4, 1>>, dir |-> <<0, 0, 1>>,  depth |-> -4 * Scale] }

\* Scan(mesh, rotation_x, rotation_y, bounding_radius, resolution, calculate_normals)
Scan(out, rotation_x, rotation_y, calculate_normals) ==
    [rotation_x |-> rotation_x,
     rotation_y |-> rotation_y,
     points |-> [j \in DOMAIN out.samples |-> SurfaceSamples[out.samples[j]].point],
     normals |-> IF calculate_normals
                 THEN Some([j \in DOMAIN out.samples |-> SurfaceSamples[out.samples[j]].normal])
                 ELSE None,
     dir |-> out.dir,
     depth |-> out.depth]

\* scan.is_visible(points): per row, whether the depth buffer leaves it unoccluded
is_visible(scan, points) ==
    [j \in Rows(points) |-> Dot(Data(points)[j], scan.dir) > scan.depth]


---------------------------------------------------------------------------
(* class SurfacePointCloud *)

\* SurfacePointCloud(mesh, points, normals, scans): the constructor builds the
\* KDTree and raises what KDTree raises.
SurfacePointCloud(points, normals, scans, rank) ==
    LET kd_tree == KDTree(points, rank)
    IN  IF kd_tree.exc # NoExc THEN kd_tree
        ELSE Ok([points |-> points, normals |-> normals, scans |-> scans,
                 kd_tree |-> kd_tree.val])

\* Fault model: the visibilities are and-ed
logical_or_AsAnd(a, b) == [j \in DOMAIN a |-> a[j] /\ b[j]]

\* np.logical_or(a, b), element-wise
logical_or(a, b) == [j \in DOMAIN a |-> a[j] \/ b[j]]

\* The loop of is_outside: result starts as None, takes the first scan's
\* visibility and is or-ed with every later one.
RECURSIVE is_outside_loop(_, _, _)
is_outside_loop(result, scans, points) ==
    IF scans = <<>> THEN result
    ELSE LET v == is_visible(Head(scans), points)
             next == IF result = None THEN Some(v)
                     ELSE Some(logical_or(Get(result), v))
         IN  is_outside_loop(next, Tail(scans), points)

\* is_outside(points): iterating self.scans = None is a TypeError; an empty
\* scan list returns None.
is_outside(self, points) ==
    IF self.scans = None THEN Raise("TypeError")
    ELSE Ok(is_outside_loop(None, Get(self.scans), points))

\* distances[mask] *= -1.  Indexing with None (numpy's newaxis) selects the
\* whole array.
NegateWhere(distances, mask) ==
    [j \in DOMAIN distances |->
        IF mask = None \/ Get(mask)[j] THEN Negate(distances[j]) ELSE distances[j]]

CountTrue(b) == Cardinality({r \in DOMAIN b : b[r]})

\* Fault model: half of the votes suffice
MajorityInside_AtLeastHalf(votes, sample_count) == 2 * CountTrue(votes) >= sample_count

\* np.sum(inside, axis=1) > sample_count * 0.5, for one row of votes
MajorityInside(votes, sample_count) == 2 * CountTrue(votes) > sample_count

\* Fault model: the farthest of the k neighbours is reported
FirstColumn_AsLast(distances) ==
    [j \in DOMAIN distances |-> distances[j][Len(distances[j])]]

\* distances[:, 0]
FirstColumn(distances) == [j \in DOMAIN distances |-> distances[j][1]]

\* get_sdf(query_points, use_depth_buffer, sample_count)
get_sdf(self, query_points, use_depth_buffer, sample_count) ==
    IF use_depth_buffer
    THEN LET q == KDTreeQuery(self.kd_tree, query_points, 1)
         IN  IF q.exc # NoExc THEN q
             ELSE LET distances == [j \in Rows(query_points) |->
                                       Negate(q.val.distances[j][1])]
                      outside == is_outside(self, query_points)
                  IN  IF outside.exc # NoExc THEN outside
                      ELSE Ok(Array("float32", Shape0(query_points),
                                    NegateWhere(distances, outside.val)))
    ELSE LET q == KDTreeQuery(self.kd_tree, query_points, sample_count)
         IN  IF q.exc # NoExc THEN q
             ELSE IF self.normals = None THEN Raise("TypeError")
             ELSE LET indices == q.val.indices
                      direction_to_surface == [j \in Rows(query_points) |->
                          [r \in 1..sample_count |->
                              Sub(Data(query_points)[j], self.points[indices[j][r]])]]
                      votes == [j \in Rows(query_points) |->
                          [r \in 1..sample_count |->
                              Dot(direction_to_surface[j][r],
                                  Get(self.normals)[indices[j][r]]) < 0]]
                      inside == [j \in Rows(query_points) |->
                          MajorityInside(votes[j], sample_count)]
                      distances == FirstColumn(q.val.distances)
                  IN  Ok(Array("float32", Shape0(query_points),
                               NegateWhere(distances, Some(inside))))

---------------------------------------------------------------------------
(* get_equidistant_camera_angles, create_from_scans, sample_from_mesh *)

\* Angles are fixed-point fractions of a full turn: FullTurn is 2*pi and
\* increment is pi * (3 - sqrt(5)) = 0.381966 turns.
FullTurn == 1000000
increment == 381966

\* math.asin(x) for the rational x = num/den (den > 0): a domain error outside
\* [-1, 1]; inside, the angle in [-pi/2, pi/2] whose sine is x, which the
\* model carries as that sine (asin is strictly increasing).
asin(num, den) ==
    IF num < -den \/ num > den THEN Raise("ValueError")
    ELSE Ok([sin_num |-> num, sin_den |-> den])

\* Fault model: a single view is placed on the equator instead of dividing by zero
CameraAngle_SingleView(count, i) ==
    IF count - 1 = 0 THEN Ok([phi |-> ((i + 1) * increment) % FullTurn,
                              theta |-> [sin_num |-> 0, sin_den |-> 1]])
    ELSE Ok([phi |-> ((i + 1) * increment) % FullTurn,
             theta |-> [sin_num |-> 2 * i - (count - 1), sin_den |-> count - 1]])

\* The i-th step of the generator get_equidistant_camera_angles(count):
\* -1 + 2 * i / (count - 1) is (2*i - (count-1)) / (count-1).
\* Fault model: the azimuth is not reduced modulo a full turn
Azimuth_Unreduced(i) == (i + 1) * increment

\* phi = ((i + 1) * increment) % (2 * math.pi)
Azimuth(i) == ((i + 1) * increment) % FullTurn

CameraAngle(count, i) ==
    IF count - 1 = 0 THEN Raise("ZeroDivisionError")
    ELSE LET theta == asin(2 * i - (count - 1), count - 1)
         IN  IF theta.exc # NoExc THEN theta
             ELSE Ok([phi |-> Azimuth(i), theta |-> theta.val])

\* The return statement of create_from_scans: np.concatenate of an empty
\* list raises ValueError.
create_from_scans_result(scans, calculate_normals, rank) ==
    IF scans = <<>> THEN Raise("ValueError")
    ELSE SurfacePointCloud(
            concatenate([s \in DOMAIN scans |-> scans[s].points]),
            IF calculate_normals
            THEN Some(concatenate([s \in DOMAIN scans |-> Get(scans[s].normals)]))
            ELSE None,
            Some(scans),
            rank)

\* sample_from_mesh: mesh.sample returns the rows named by samples.
sample_from_mesh_result(samples, calculate_normals, rank) ==
    SurfacePointCloud(
        [j \in DOMAIN samples |-> SurfaceSamples[samples[j]].point],
        IF calculate_normals
        THEN Some([j \in DOMAIN samples |-> SurfaceSamples[samples[j]].normal])
        ELSE None,
        None,
        rank)

\* The tie orders of a tree over n points: in index order, or against it
TieOrders(n) == {[j \in 1..n |-> j], [j \in 1..n |-> n + 1 - j]}

\* The rows mesh.sample can return
SampleDraws == {<<1>>, <<1, 2>>, <<2, 4, 1>>}

ScanCounts == -1..MaxScans

create_from_scans_call ==
    /\ pc = "idle"
    /\ \E scan_count \in ScanCounts, calculate_normals \in BOOLEAN :
          frame' = [fn |-> "create_from_scans", scan_count |-> scan_count,
                    calculate_normals |-> calculate_normals, i |-> 0, scans |-> <<>>]
    /\ pc' = "create_from_scans"
    /\ log' = <<>>
    /\ UNCHANGED <<cloud, ret>>

\* One iteration of "for phi, theta in get_equidistant_camera_angles(...)":
\* the generator computes the next pair (or raises), then a Scan is appended.
create_from_scans_loop ==
    /\ pc = "create_from_scans"
    /\ frame.i < frame.scan_count
    /\ LET angle == CameraAngle(frame.scan_count, frame.i)
       IN  IF angle.exc # NoExc
           THEN /\ pc' = "raised"
                /\ ret' = angle
                /\ UNCHANGED <<cloud, frame, log>>
           ELSE /\ \E out \in ScanOutputs :
                     frame' = [frame EXCEPT
                        !.i = @ + 1,
                        !.scans = Append(@, Scan(out, angle.val.phi, angle.val.theta,
                                                 frame.calculate_normals))]
                /\ log' = Append(log, angle.val)
                /\ UNCHANGED <<pc, cloud, ret>>

create_from_scans_return ==
    /\ pc = "create_from_scans"
    /\ frame.i >= frame.scan_count
    /\ \E rank \in TieOrders(Len(concatenate([s \in DOMAIN frame.scans |->
                                                  frame.scans[s].points]))) :
          LET r == create_from_scans_result(frame.scans, frame.calculate_normals, rank)
          IN  /\ ret' = r
              /\ IF r.exc # NoExc
                 THEN pc' = "raised" /\ UNCHANGED cloud
                 ELSE pc' = "ready" /\ cloud' = Some(r.val)
    /\ UNCHANGED <<frame, log>>

---------------------------------------------------------------------------
(* get_sdf_in_batches *)

\* A Python number: its value and whether it is a float.  The default
\* batch_size, 1e6, is a float literal.
PyInt(n) == [val |-> n, isFloat |-> FALSE]
PyFloat(n) == [val |-> n, isFloat |-> TRUE]
DefaultBatchSize == 1000000
DefaultSampleCount == 11

Times(a, b) == [val |-> a.val * b.val, isFloat |-> a.isFloat \/ b.isFloat]
\* min(a, b): the first argument unless the second is smaller
PyMin(a, b) == IF b.val < a.val THEN b ELSE a
\* int(math.ceil(m / b)) for m >= 0 and a whole-valued b >= 1
CeilDiv(m, b) == (m + b - 1) \div b

zeros(n) == Array("float64", n, [j \in 1..n |-> Float(0)])

\* The body of the for loop, iteration i: the result array after it, or the
\* exception it raises.  A float slice bound is a TypeError.
BatchStart(i, batch_size) == Times(PyInt(i), batch_size)
BatchEnd(i, batch_size, result) ==
    PyMin(PyInt(Shape0(result)), Times(PyInt(i + 1), batch_size))

\* result[start:end] = batch, unless computing batch raised
BatchAssign(result, start, end, batch) ==
    IF batch.exc # NoExc THEN batch
    ELSE Ok(Array(Dtype(result), Shape0(result),
            [j \in Rows(result) |->
                IF start < j /\ j <= end THEN Data(batch.val)[j - start]
                ELSE Data(result)[j]]))

BatchSlice(self, query_points, use_depth_buffer, sample_count, start, end, result) ==
    IF start.isFloat \/ end.isFloat THEN Raise("TypeError")
    ELSE BatchAssign(result, start.val, end.val,
            get_sdf(self, Slice(query_points, start.val, end.val),
                    use_depth_buffer, sample_count))

BatchIteration(self, query_points, use_depth_buffer, sample_count, batch_size, i, result) ==
    BatchSlice(self, query_points, use_depth_buffer, sample_count,
               BatchStart(i, batch_size), BatchEnd(i, batch_size, result), result)

\* Whether get_sdf_in_batches takes the early return (no batching).
Unbatched(query_points, batch_size) == Shape0(query_points) <= batch_size.val

\* range(int(math.ceil(query_points.shape[0] / batch_size)))
BatchCount(query_points, batch_size) == CeilDiv(Shape0(query_points), batch_size.val)

\* The for loop from iteration i on.  BatchNext is the loop after the body
\* of iteration i has left the outcome step.
RECURSIVE BatchLoop(_, _, _, _, _, _, _)
RECURSIVE BatchNext(_, _, _, _, _, _, _)
BatchNext(self, query_points, use_depth_buffer, sample_count, batch_size, i, step) ==
    IF step.exc # NoExc THEN step
    ELSE BatchLoop(self, query_points, use_depth_buffer, sample_count,
                   batch_size, i + 1, step.val)

BatchLoop(self, query_points, use_depth_buffer, sample_count, batch_size, i, result) ==
    IF BatchCount(query_points, batch_size) <= i THEN Ok(result)
    ELSE BatchNext(self, query_points, use_depth_buffer, sample_count, batch_size, i,
                   BatchIteration(self, query_points, use_depth_buffer, sample_count,
                                  batch_size, i, result))

\* get_sdf_in_batches as one call (what get_voxels uses)
get_sdf_in_batches(self, query_points, use_depth_buffer, sample_count, batch_size) ==
    IF Unbatched(query_points, batch_size)
    THEN get_sdf(self, query_points, use_depth_buffer, sample_count)
    ELSE BatchLoop(self, query_points, use_depth_buffer, sample_count, batch_size,
                   0, zeros(Shape0(query_points)))

BatchFrame(query_points, use_depth_buffer, sample_count, batch_size) ==
    [fn |-> "get_sdf_in_batches", query_points |-> query_points,
     use_depth_buffer |-> use_depth_buffer, sample_count |-> sample_count,
     batch_size |-> batch_size, i |-> 0, result |-> zeros(Shape0(query_points))]

\* Query points the callers pass: the center, a point outside the surface
\* and a point of the cloud.
QueryUniverse == {<<0, 0, 0>>, <<Scale, 0, 0>>, <<Half, 0, 0>>}

RECURSIVE SeqsUpTo(_, _)
SeqsUpTo(S, n) ==
    IF n = 0 THEN {<<>>}
    ELSE LET shorter == SeqsUpTo(S, n - 1)
         IN  shorter \cup {Append(s, x) : s \in {t \in shorter : Len(t) = n - 1}, x \in S}

QueryArrays == {Array("float64", Len(s), s) : s \in SeqsUpTo(QueryUniverse, MaxPoints)}
\* Batch sizes: small integers, a small float and the default
BatchSizes == {PyInt(b) : b \in 1..MaxBatch}
                \cup {PyFloat(1), PyFloat(DefaultBatchSize)}
SampleCounts == (1..MaxK) \cup {DefaultSampleCount}

get_sdf_call ==
    /\ pc = "ready"
    /\ \E query_points \in QueryArrays, use_depth_buffer \in BOOLEAN,
          sample_count \in SampleCounts :
          LET r == get_sdf(Get(cloud), query_points, use_depth_buffer, sample_count)
          IN  /\ frame' = [fn |-> "get_sdf", query_points |-> query_points,
                           use_depth_buffer |-> use_depth_buffer,
                           sample_count |-> sample_count]
              /\ ret' = r
              /\ pc' = IF r.exc # NoExc THEN "raised" ELSE "returned"
    /\ log' = <<>>
    /\ UNCHANGED cloud

get_sdf_in_batches_call ==
    /\ pc = "ready"
    /\ \E query_points \in QueryArrays, use_depth_buffer \in BOOLEAN,
          sample_count \in SampleCounts, batch_size \in BatchSizes :
          LET fr == BatchFrame(query_points, use_depth_buffer, sample_count, batch_size)
          IN  /\ frame' = fr
              /\ IF Unbatched(query_points, batch_size)
                 THEN LET r == get_sdf(Get(cloud), query_points, use_depth_buffer,
                                       sample_count)
                      IN  /\ ret' = r
                          /\ pc' = IF r.exc # NoExc THEN "raised" ELSE "returned"
                 ELSE /\ pc' = "get_sdf_in_batches"
                      /\ UNCHANGED ret
    /\ log' = <<>>
    /\ UNCHANGED cloud

get_sdf_in_batches_loop ==
    /\ pc = "get_sdf_in_batches"
    /\ frame.i < BatchCount(frame.query_points, frame.batch_size)
    /\ LET step == BatchIteration(Get(cloud), frame.query_points, frame.use_depth_buffer,
                                  frame.sample_count, frame.batch_size, frame.i,
                                  frame.result)
       IN  IF step.exc # NoExc
           THEN /\ pc' = "raised"
                /\ ret' = step
                /\ UNCHANGED <<frame, log>>
           ELSE /\ frame' = [frame EXCEPT !.i = @ + 1, !.result = step.val]
                /\ log' = Append(log,
                      [i |-> frame.i,
                       start |-> BatchStart(frame.i, frame.batch_size).val,
                       end |-> BatchEnd(frame.i, frame.batch_size, frame.result).val])
                /\ UNCHANGED <<pc, ret>>
    /\ UNCHANGED cloud

get_sdf_in_batches_return ==
    /\ pc = "get_sdf_in_batches"
    /\ frame.i >= BatchCount(frame.query_points, frame.batch_size)
    /\ ret' = Ok(frame.result)
    /\ pc' = "returned"
    /\ UNCHANGED <<cloud, frame, log>>

---------------------------------------------------------------------------
(* get_voxels *)

\* mesh_to_sdf.utils.get_raster_points(voxel_resolution): the centers of the
\* cells of a regular grid over the cube [-1, 1]^3, the first axis slowest.
RasterCenter(a, voxel_resolution) ==
    ((2 * a + 1) * Scale) \div voxel_resolution - Scale

get_raster_points(voxel_resolution) ==
    LET n == voxel_resolution
    IN  Array("float64", n * n * n,
            [j \in 1..(n * n * n) |->
                <<RasterCenter((j - 1) \div (n * n), n),
                  RasterCenter(((j - 1) \div n) % n, n),
                  RasterCenter((j - 1) % n, n)>>])

\* mesh_to_sdf.utils.check_voxels(voxels): the volume holds both outside and
\* inside values.
check_voxels(voxels) ==
    LET cells == {Data(voxels)[a][b][c] : a \in Rows(voxels), b \in Rows(voxels),
                                         c \in Rows(voxels)}
    IN  (\E v \in cells : v.neg) /\ (\E v \in cells : ~v.neg)

\* sdf.reshape((n, n, n)): row-major; a size other than n^3 is a ValueError.
reshape(sdf, n) ==
    IF Shape0(sdf) # n * n * n THEN Raise("ValueError")
    ELSE Ok(Array(Dtype(sdf), n,
            [a \in 1..n |-> [b \in 1..n |-> [c \in 1..n |->
                Data(sdf)[(a - 1) * n * n + (b - 1) * n + c]]]]))

\* np.pad(voxels, 1, mode='constant', constant_values=1): the distance 1.0
pad_constant(voxels) ==
    LET n == Shape0(voxels)
        Inner(x) == 2 <= x /\ x <= n + 1
    IN  Array(Dtype(voxels), n + 2,
            [a \in 1..(n + 2) |-> [b \in 1..(n + 2) |-> [c \in 1..(n + 2) |->
                IF Inner(a) /\ Inner(b) /\ Inner(c)
                THEN Data(voxels)[a - 1][b - 1][c - 1]
                ELSE Float(Scale * Scale)]]])

\* Fault model: the volume is padded before it is checked
get_voxels_check_AfterPad(voxels, pad, check_result) ==
    IF voxels.exc # NoExc THEN voxels
    ELSE IF check_result /\ ~check_voxels(IF pad THEN pad_constant(voxels.val)
                                          ELSE voxels.val)
    THEN Raise("BadMeshException")
    ELSE IF pad THEN Ok(pad_constant(voxels.val))
    ELSE voxels

\* get_voxels after the reshape: the check, then the padding
get_voxels_check(voxels, pad, check_result) ==
    IF voxels.exc # NoExc THEN voxels
    ELSE IF check_result /\ ~check_voxels(voxels.val) THEN Raise("BadMeshException")
    ELSE IF pad THEN Ok(pad_constant(voxels.val))
    ELSE voxels

\* get_voxels after get_sdf_in_batches has left the outcome sdf
get_voxels_reshape(sdf, voxel_resolution, pad, check_result) ==
    IF sdf.exc # NoExc THEN sdf
    ELSE get_voxels_check(reshape(sdf.val, voxel_resolution), pad, check_result)

get_voxels(self, voxel_resolution, use_depth_buffer, sample_count, pad, check_result) ==
    get_voxels_reshape(
        get_sdf_in_batches(self, get_raster_points(voxel_resolution),
                           use_depth_buffer, sample_count, PyFloat(DefaultBatchSize)),
        voxel_resolution, pad, check_result)

\* The smallest resolution whose grid has more points than the default batch size
LargeResolution ==
    CHOOSE r \in 1..200 : /\ r * r * r > DefaultBatchSize
                          /\ (r - 1) * (r - 1) * (r - 1) <= DefaultBatchSize

Resolutions == (1..MaxResolution) \cup {LargeResolution}

get_voxels_call ==
    /\ pc = "ready"
    /\ \E voxel_resolution \in Resolutions, use_depth_buffer \in BOOLEAN,
          sample_count \in SampleCounts, pad \in BOOLEAN, check_result \in BOOLEAN :
          LET r == get_voxels(Get(cloud), voxel_resolution, use_depth_buffer,
                              sample_count, pad, check_result)
          IN  /\ frame' = [fn |-> "get_voxels", voxel_resolution |-> voxel_resolution,
                           use_depth_buffer |-> use_depth_buffer,
                           sample_count |-> sample_count, pad |-> pad,
                           check_result |-> check_result]
              /\ ret' = r
              /\ pc' = IF r.exc # NoExc THEN "raised" ELSE "returned"
    /\ log' = <<>>
    /\ UNCHANGED cloud

---------------------------------------------------------------------------
(* The program *)

sample_from_mesh_call ==
    /\ pc = "idle"
    /\ \E samples \in SampleDraws, calculate_normals \in BOOLEAN :
        \E rank \in TieOrders(Len(samples)) :
          LET r == sample_from_mesh_result(samples, calculate_normals, rank)
          IN  /\ frame' = [fn |-> "sample_from_mesh", samples |-> samples,
                           calculate_normals |-> calculate_normals]
              /\ ret' = r
              /\ IF r.exc # NoExc
                 THEN pc' = "raised" /\ UNCHANGED cloud
                 ELSE pc' = "ready" /\ cloud' = Some(r.val)
    /\ log' = <<>>

NoFrame == [fn |-> "none"]

\* Construction: from nothing to a point cloud (or an exception)
InitCreate ==
    /\ pc = "idle"
    /\ cloud = None
    /\ frame = NoFrame
    /\ ret = Ok(None)
    /\ log = <<>>

NextCreate ==
    \/ create_from_scans_call
    \/ create_from_scans_loop
    \/ create_from_scans_return
    \/ sample_from_mesh_call

SpecCreate == InitCreate /\ [][NextCreate]_vars

\* The scan lists the loop of create_from_scans builds for scan_count >= 2
ScanLists(scan_count, calculate_normals) ==
    {[i \in 1..scan_count |->
        LET angle == CameraAngle(scan_count, i - 1).val
        IN  Scan(outs[i], angle.phi, angle.theta, calculate_normals)] :
     outs \in [1..scan_count -> ScanOutputs]}

\* Point clouds the two constructors return
SampledClouds ==
    UNION {{sample_from_mesh_result(samples, calculate_normals, rank).val :
              calculate_normals \in BOOLEAN, rank \in TieOrders(Len(samples))} :
           samples \in SampleDraws}

ScannedClouds ==
    UNION {{create_from_scans_result(scans, TRUE, rank).val :
              rank \in TieOrders(Len(concatenate([s \in DOMAIN scans |-> scans[s].points])))} :
           scans \in ScanLists(2, TRUE)}

\* Queries: a constructed point cloud answers one call
Init ==
    /\ pc = "ready"
    /\ cloud \in {Some(c) : c \in SampledClouds \cup ScannedClouds}
    /\ frame = NoFrame
    /\ ret = Ok(None)
    /\ log = <<>>

Next ==
    \/ get_sdf_call
    \/ get_sdf_in_batches_call
    \/ get_sdf_in_batches_loop
    \/ get_sdf_in_batches_return
    \/ get_voxels_call

Spec == Init /\ [][Next]_vars

---------------------------------------------------------------------------
(* Properties *)

Finished(fn) == frame.fn = fn /\ pc \in {"returned", "raised"}
Returned(fn) == frame.fn = fn /\ pc = "returned"

\* Two outcomes agree: the same exception, or arrays equal element by element
SameOutcome(a, b) ==
    /\ a.exc = b.exc
    /\ a.exc = NoExc =>
          /\ Shape0(a.val) = Shape0(b.val)
          /\ \A j \in Rows(a.val) : Data(a.val)[j] = Data(b.val)[j]

\* The squared distance from q to the nearest point of the cloud
NearestMag(q) ==
    LET all == {Dist2(q, Get(cloud).points[n]) : n \in DOMAIN Get(cloud).points}
    IN  CHOOSE d \in all : \A e \in all : d <= e

QueryPoint(j) == Data(frame.query_points)[j]
Returned_sdf(j) == Data(ret.val)[j]

\* C1: whatever the batch size (smaller than, equal to or larger than the
\* number of points, or the default), a finished get_sdf_in_batches call has
\* the outcome of the unbatched get_sdf on the same points: the same values
\* element by element, and it fails only where get_sdf fails.
C1_BatchingIdempotence ==
    Finished("get_sdf_in_batches") =>
        SameOutcome(ret, get_sdf(Get(cloud), frame.query_points,
                                 frame.use_depth_buffer, frame.sample_count))

\* Scans of the cloud that see row j of the query
ScansSeeing(j) ==
    {s \in DOMAIN Get(Get(cloud).scans) :
        is_visible(Get(Get(cloud).scans)[s], frame.query_points)[j]}

\* C2: get_sdf with use_depth_buffer returns, for every query point, a value
\* whose sign is positive exactly when at least one scan of the cloud sees the
\* point and negative when no scan sees it, and whose magnitude is the
\* distance to the nearest cloud point.
C2_VisibilityScanSign ==
    (Returned("get_sdf") /\ frame.use_depth_buffer) =>
        \A j \in Rows(frame.query_points) :
            /\ Returned_sdf(j).neg <=> ScansSeeing(j) = {}
            /\ Returned_sdf(j).mag = NearestMag(QueryPoint(j))

\* A point seen by one scan only is outside, a point no scan sees is inside
C2_Witness ==
    /\ Returned("get_sdf") /\ frame.use_depth_buffer
    /\ Len(Get(Get(cloud).scans)) = 2
    /\ \E j \in Rows(frame.query_points) :
          /\ Cardinality(ScansSeeing(j)) = 1
          /\ ~Returned_sdf(j).neg /\ Returned_sdf(j).mag > 0
    /\ \E j \in Rows(frame.query_points) :
          /\ ScansSeeing(j) = {}
          /\ Returned_sdf(j).neg /\ Returned_sdf(j).mag > 0

\* The neighbours of row j, among its sample_count nearest, that vote inside:
\* (query point - neighbour) . (the neighbour's normal) is negative
InsideVotes(j) ==
    LET nearest == KDTreeQuery(Get(cloud).kd_tree, frame.query_points,
                               frame.sample_count).val.indices[j]
    IN  {r \in 1..frame.sample_count :
            Dot(Sub(QueryPoint(j), Get(cloud).points[nearest[r]]),
                Get(Get(cloud).normals)[nearest[r]]) < 0}

\* C3: get_sdf without use_depth_buffer returns a negative value for a query
\* point exactly when strictly more than half of its k = sample_count nearest
\* neighbours vote inside; an exact tie is positive.
C3_NormalVoteSign ==
    (Returned("get_sdf") /\ ~frame.use_depth_buffer) =>
        \A j \in Rows(frame.query_points) :
            Returned_sdf(j).neg <=> 2 * Cardinality(InsideVotes(j)) > frame.sample_count

\* k = 2: one row with both votes inside, one row with a tie
C3_Witness ==
    /\ Returned("get_sdf") /\ ~frame.use_depth_buffer
    /\ frame.sample_count = 2
    /\ \E j \in Rows(frame.query_points) :
          Cardinality(InsideVotes(j)) = 2 /\ Returned_sdf(j).neg
    /\ \E j \in Rows(frame.query_points) :
          Cardinality(InsideVotes(j)) = 1 /\ ~Returned_sdf(j).neg

\* C4: under both sign strategies and every k, the magnitude get_sdf returns
\* for a query point is its distance to the nearest point of the cloud; a
\* query point that is a point of the cloud gets magnitude 0.
C4_DistanceMagnitude ==
    Returned("get_sdf") =>
        \A j \in Rows(frame.query_points) :
            /\ Returned_sdf(j).mag = NearestMag(QueryPoint(j))
            /\ (\E n \in DOMAIN Get(cloud).points : Get(cloud).points[n] = QueryPoint(j))
                  => Returned_sdf(j).mag = 0

\* k = 2 with a second neighbour farther than the first, and a coincident row
C4_Witness ==
    /\ Returned("get_sdf") /\ ~frame.use_depth_buffer
    /\ frame.sample_count = 2
    /\ LET q == KDTreeQuery(Get(cloud).kd_tree, frame.query_points, 2).val
       IN  /\ \E j \in Rows(frame.query_points) :
                 /\ q.distances[j][1].mag < q.distances[j][2].mag
                 /\ Returned_sdf(j).mag = q.distances[j][1].mag
                 /\ Returned_sdf(j).mag > 0
           /\ \E j \in Rows(frame.query_points) :
                 /\ \E n \in DOMAIN Get(cloud).points : Get(cloud).points[n] = QueryPoint(j)
                 /\ Returned_sdf(j).mag = 0

\* The cloud can evaluate a query with the frame's strategy and sample_count
\* at all: get_sdf on a single point returns.
Answerable ==
    get_sdf(Get(cloud), Array("float64", 1, <<<<0, 0, 0>>>>),
            frame.use_depth_buffer, frame.sample_count).exc = NoExc

\* v is an n x n x n volume
IsCube(v, n) ==
    /\ Shape0(v) = n
    /\ DOMAIN Data(v) = 1..n
    /\ \A a \in 1..n :
          /\ DOMAIN Data(v)[a] = 1..n
          /\ \A b \in 1..n : DOMAIN Data(v)[a][b] = 1..n

\* The volume get_voxels computes before checking and padding
UnpaddedVolume ==
    get_voxels(Get(cloud), frame.voxel_resolution, frame.use_depth_buffer,
               frame.sample_count, FALSE, FALSE)

\* C5: for every resolution R >= 1, get_voxels(R) returns a volume of shape
\* (R,R,R) without padding; with pad it returns shape (R+2,R+2,R+2) whose
\* outer shell is +1 everywhere and whose interior is the unpadded volume.
C5_VoxelShape ==
    (Finished("get_voxels") /\ ret.exc # "BadMeshException" /\ Answerable) =>
        LET R == frame.voxel_resolution
        IN  /\ pc = "returned"
            /\ IF ~frame.pad THEN IsCube(ret.val, R)
               ELSE /\ IsCube(ret.val, R + 2)
                    /\ \A a, b, c \in 1..(R + 2) :
                          Data(ret.val)[a][b][c] =
                              IF {a, b, c} \cap {1, R + 2} # {}
                              THEN Float(Scale * Scale)
                              ELSE Data(UnpaddedVolume.val)[a - 1][b - 1][c - 1]

\* C6: get_voxels raises BadMeshException exactly when check_result is
\* requested and the heuristic rejects the unpadded R x R x R volume; it then
\* returns no volume and the call is over; without check_result it never
\* raises BadMeshException.
C6_ValidationFailure ==
    Finished("get_voxels") =>
        /\ ret.exc = "BadMeshException" <=>
              /\ frame.check_result
              /\ UnpaddedVolume.exc = NoExc
              /\ ~check_voxels(UnpaddedVolume.val)
        /\ ret.exc = "BadMeshException" => pc = "raised" /\ ret.val = None
        /\ ~frame.check_result => ret.exc # "BadMeshException"

\* A rejected volume that would have passed the heuristic once padded
C6_Witness ==
    /\ Finished("get_voxels")
    /\ frame.check_result /\ frame.pad
    /\ ret.exc = "BadMeshException" /\ pc = "raised"
    /\ ~check_voxels(UnpaddedVolume.val)
    /\ check_voxels(pad_constant(UnpaddedVolume.val))

\* C9: with more points than the batch size, the loop of get_sdf_in_batches
\* runs ceil(M/B) iterations and returns; iteration i handles the range
\* [i*B, min(M, (i+1)*B)); the ranges are non-empty, disjoint and cover
\* [0, M); the output has length M and holds at every index the signed
\* distance of the query point at that index, computed on its own.
C9_BatchPartition ==
    (/\ Finished("get_sdf_in_batches")
     /\ ~Unbatched(frame.query_points, frame.batch_size)
     /\ Answerable) =>
        LET M == Shape0(frame.query_points)
            B == frame.batch_size.val
        IN  /\ pc = "returned"
            /\ Len(log) * B >= M /\ (Len(log) - 1) * B < M
            /\ \A n \in DOMAIN log :
                  /\ log[n].i = n - 1
                  /\ log[n].start = (n - 1) * B
                  /\ log[n].end = IF n * B < M THEN n * B ELSE M
                  /\ log[n].start < log[n].end
            /\ \A j \in 0..(M - 1) :
                  Cardinality({n \in DOMAIN log :
                                  log[n].start <= j /\ j < log[n].end}) = 1
            /\ Shape0(ret.val) = M
            /\ \A j \in 1..M :
                  Data(ret.val)[j] =
                      Data(get_sdf(Get(cloud), Slice(frame.query_points, j - 1, j),
                                   frame.use_depth_buffer, frame.sample_count).val)[1]

\* The spec's error InvalidInput ("empty point set passed to Spatial Index
\* construction, or scan count < 2 passed to multi-view aggregation
\* (division-by-zero in angle formula)") as the code raises it: the
\* ZeroDivisionError of the angle formula and the ValueError of numpy and
\* sklearn on empty input.
InvalidInput == {"ZeroDivisionError", "ValueError"}

\* C7: create_from_scans with a scan count below 2 (1, 0, negative) ends by
\* raising InvalidInput and returns no point cloud; with scan count 2 it
\* returns a point cloud.
C7_ScanCountBelowTwo ==
    (frame.fn = "create_from_scans" /\ pc \in {"ready", "raised"}) =>
        /\ frame.scan_count < 2 =>
              /\ pc = "raised"
              /\ ret.exc \in InvalidInput
              /\ ret.val = None
              /\ cloud = None
        /\ frame.scan_count = 2 =>
              /\ pc = "ready"
              /\ ret.exc = NoExc
              /\ cloud = Some(ret.val)
              /\ Len(frame.scans) = 2

\* Scan count 1 has raised the division by zero before any scan was made
C7_Witness ==
    /\ frame.fn = "create_from_scans" /\ frame.scan_count = 1
    /\ pc = "raised"
    /\ ret.exc = "ZeroDivisionError"
    /\ frame.scans = <<>>
    /\ cloud = None

\* C8: for a count C >= 2 the generator yields one (azimuth, elevation) pair
\* per view index 0, 1, ..., C-1 and nothing else, never raising; the pairs
\* are pairwise distinct; the elevation argument of view i is
\* -1 + 2*i/(C-1), within [-1, 1]; every azimuth is within [0, 2*pi).
C8_CameraAngles ==
    (frame.fn = "create_from_scans" /\ frame.scan_count >= 2) =>
        LET C == frame.scan_count
        IN  /\ pc # "raised"
            /\ Len(log) = frame.i /\ frame.i <= C
            /\ pc = "ready" => Len(log) = C
            /\ \A n \in DOMAIN log :
                  /\ 0 <= log[n].phi /\ log[n].phi < FullTurn
                  /\ log[n].theta.sin_den > 0
                  /\ -log[n].theta.sin_den <= log[n].theta.sin_num
                  /\ log[n].theta.sin_num <= log[n].theta.sin_den
                  /\ log[n].theta.sin_num * (C - 1) =
                        (2 * (n - 1) - (C - 1)) * log[n].theta.sin_den
            /\ \A m, n \in DOMAIN log : m # n => log[m] # log[n]

\* All views of the largest count were generated, the last azimuth wrapped
C8_Witness ==
    /\ frame.fn = "create_from_scans" /\ pc = "ready"
    /\ frame.scan_count >= 3
    /\ Len(log) = frame.scan_count
    /\ \E n \in DOMAIN log : n * increment >= FullTurn /\ log[n].phi < FullTurn

\* The number of points of the scans before scan s
RECURSIVE PointsBefore(_, _)
PointsBefore(scans, s) ==
    IF s <= 1 THEN 0 ELSE PointsBefore(scans, s - 1) + Len(scans[s - 1].points)

\* C10: the point cloud create_from_scans returns holds the C scans in the
\* order their camera angles were generated; its points are the scans'
\* points joined in scan order; with calculate_normals its normals are the
\* scans' normals joined in the same order, one per point; without, it has
\* no normals.
C10_ScanAggregation ==
    (frame.fn = "create_from_scans" /\ pc = "ready") =>
        LET self == Get(cloud)
            scans == Get(self.scans)
        IN  /\ self.scans # None
            /\ Len(scans) = frame.scan_count
            /\ \A s \in DOMAIN scans :
                  /\ scans[s].rotation_x = log[s].phi
                  /\ scans[s].rotation_y = log[s].theta
            /\ Len(self.points) = PointsBefore(scans, Len(scans) + 1)
            /\ \A s \in DOMAIN scans : \A j \in DOMAIN scans[s].points :
                  self.points[PointsBefore(scans, s) + j] = scans[s].points[j]
            /\ IF frame.calculate_normals
               THEN /\ self.normals # None
                    /\ Len(Get(self.normals)) = Len(self.points)
                    /\ \A s \in DOMAIN scans : \A j \in DOMAIN scans[s].points :
                          Get(self.normals)[PointsBefore(scans, s) + j] =
                              Get(scans[s].normals)[j]
               ELSE self.normals = None

\* Three scans with normals, the first with two points that the second lacks
C10_Witness ==
    /\ frame.fn = "create_from_scans" /\ pc = "ready"
    /\ frame.calculate_normals
    /\ frame.scan_count = 3
    /\ Len(Get(Get(cloud).scans)[1].points) = 2
    /\ Get(Get(cloud).scans)[1].points # Get(Get(cloud).scans)[2].points
    /\ Len(Get(cloud).points) > 3

=============================================================================
